---- MODULE Spec2Model ----
(***************************************************************************)
(* A model of mjolnir's kafka -> elasticsearch bulk daemon                 *)
(* (src/mjolnir/kafka/bulk_daemon.py): the consume loop run() with its     *)
(* start-up make_es_clusters, the splitter split_records_by_cluster, the   *)
(* bulk submitter stream_to_es with expand_action, and the route table     *)
(* cache ttl_memoize.                                                      *)
(*                                                                         *)
(* Five specifications share the module's variables:                       *)
(*   Spec       run(), with everything it calls                            *)
(*   FairSpec   Spec, with run() always taking its next step               *)
(*   SpecSplit  split_records_by_cluster on bounded poll responses         *)
(*   SpecMemo   ttl_memoize under a wall clock that may step backwards     *)
(*   SpecBulk   stream_to_es on bounded records and bulk responses         *)
(***************************************************************************)
EXTENDS Integers, Sequences, FiniteSets, TLC

VARIABLES
    pc,            \* position of run() (or of the function under study)
    mono,          \* time.monotonic()
    wall,          \* time.time()
    last_commit,   \* run(): last_commit
    offsets,       \* run(): offsets, the staged offsets (a dict tp -> next offset)
    batch,         \* run(): batch, the poll response (an ordered dict tp -> records)
    indices,       \* the route table handed to split_records_by_cluster
    split,         \* run(): split, one sub-batch per cluster
    ci,            \* position of the `for cluster, records in zip(...)` loop
    cache,         \* ttl_memoize: cache, at most one entry (the key is ())
    nbuilds,       \* number of producer calls so far (the identity of the next object)
    counters,      \* Metric: every prometheus counter, by label
    observations,  \* Metric.SUBMIT_BATCH: number of observations
    position,      \* the consumer's fetch position per partition
    log,           \* the content of the subscribed partitions
    closed,        \* consumer.close() has been called
    raised,        \* the exceptions raised, oldest first: the last one propagates out of run()
    polls,         \* number of consumer.poll() calls that returned
    calls,         \* history: the stream_to_es calls, in order
    commits,       \* history: the commit calls, in order
    hist,          \* history: the records handed to the splitter, with their route table
    reads,         \* history: the route table reads (SpecMemo)
    responses,     \* the bulk response items not yet consumed (SpecBulk)
    actions,       \* streaming_bulk: the records not expanded yet (SpecBulk)
    warnings,      \* number of log.warning calls
    sent,          \* history: what expand_action returned, in order
    uuids,         \* the cluster_uuid each configured host reports
    nonempty       \* history: number of polls that returned records

vars == <<pc, mono, wall, last_commit, offsets, batch, indices, split, ci, cache,
          nbuilds, counters, observations, position, log, closed, raised, polls,
          calls, commits, hist, reads, responses, actions, warnings, sent, uuids,
          nonempty>>

----------------------------------------------------------------------------
(* Bounds of the model *)

NumClusters == 2     \* configured elasticsearch clusters
LogLen == 2          \* records in the first partition; a poll returns any number of them
MaxPolls == 2        \* polls that return before the process is interrupted
MaxSplitRecs == 2    \* records of a poll response given to the splitter alone
MaxReads == 3        \* route table reads of SpecMemo
MaxItems == 3        \* response items of one bulk call in SpecBulk

Clusters == 1..NumClusters
PartitionOrder == <<"t0", "t1">>      \* the partitions, in the order poll() lists them
Partitions == {PartitionOrder[i] : i \in 1..Len(PartitionOrder)}
IndexNames == {"A", "B"}

----------------------------------------------------------------------------
(* Program constants *)

TTL == 300
offset_commit_interval_sec == 60

FIELD_CONFIG == [popularity_score |-> "within 20%"]

\* Metric: the labels of the three counters
ACTION_RESULTS == {"updated", "created", "noop"}
BulkLabels == ACTION_RESULTS \cup {"ok_unknown", "missing", "failed"}
InvalidLabels == {"fail_validate", "missing_index"}
Labels == BulkLabels \cup InvalidLabels \cup {"records_total"}
ZeroCounters == [l \in Labels |-> 0]

Inc(c, label, n) == [c EXCEPT ![label] = @ + n]

----------------------------------------------------------------------------
(* JSON values.  A value is [t, v]: its JSON type and its text.  A document *)
(* is flattened to the two levels the schema looks at.                      *)

V(t, v) == [t |-> t, v |-> v]
Absent == V("absent", "")
FieldNames == {"popularity_score", "unknown"}
NoFields == [f \in FieldNames |-> Absent]
Source(t, f) == [t |-> t, f |-> f]

Doc(top, index, id, source, extra) ==
    [top |-> top, index |-> index, id |-> id, source |-> source, extra |-> extra]

Score(v) == Source("object", [NoFields EXCEPT !["popularity_score"] = v])
ValidDoc(ix) == Doc("object", V("string", ix), V("integer", "42"), Score(V("number", "0.5")), FALSE)

\* the payloads (record.value, bytes) the model feeds in
Payload(enc, text, doc) == [enc |-> enc, text |-> text, doc |-> doc]
Json(doc) == Payload("utf-8", "json", doc)
BadUtf8 == Payload("invalid", "json", ValidDoc("A"))
NotJson == Payload("utf-8", "garbage", ValidDoc("A"))

PValid(ix) == Json(ValidDoc(ix))
PStrId == Json(Doc("object", V("string", "B"), V("string", "x1"), Score(V("string", "7")), FALSE))
PEmptySource == Json(Doc("object", V("string", "A"), V("integer", "1"), Source("object", NoFields), FALSE))
PUnknownField == Json(Doc("object", V("string", "A"), V("integer", "1"),
                          Source("object", [NoFields EXCEPT !["unknown"] = V("integer", "1")]), FALSE))
PTwoErrors == Json(Doc("object", Absent, V("integer", "1"), Score(V("number", "0.5")), TRUE))
PThreeErrors == Json(Doc("object", V("integer", "5"), V("object", ""), Source("string", NoFields), FALSE))
PNotObject == Json(Doc("array", Absent, Absent, Source("absent", NoFields), FALSE))

SplitPayloads == {PValid("A"), PValid("B"), PValid("Z"), PStrId, PEmptySource, PUnknownField,
                  PTwoErrors, PThreeErrors, PNotObject, BadUtf8, NotJson}
RunPayloads == {PValid("A"), PValid("B"), PEmptySource}

----------------------------------------------------------------------------
(* json.loads(record.value.decode('utf-8')): ValueError on bytes that are  *)
(* not UTF-8 (UnicodeDecodeError) or not JSON (JSONDecodeError).           *)

Decodes(payload) == payload.enc = "utf-8" /\ payload.text = "json"

(* VALIDATOR.iter_errors(value): the violations of the schema *)
Errors(doc) ==
    IF doc.top # "object" THEN {"type"}
    ELSE
        {"required:" \o k : k \in {k \in {"_index", "_id", "_source"} :
              \/ k = "_index" /\ doc.index = Absent
              \/ k = "_id" /\ doc.id = Absent
              \/ k = "_source" /\ doc.source.t = "absent"}}
        \cup (IF doc.extra THEN {"additionalProperties"} ELSE {})
        \cup (IF doc.index # Absent /\ doc.index.t # "string" THEN {"type:_index"} ELSE {})
        \cup (IF doc.id # Absent /\ doc.id.t \notin {"integer", "string"} THEN {"type:_id"} ELSE {})
        \cup (IF doc.source.t \in {"absent", "object"} THEN {} ELSE {"type:_source"})
        \cup (IF doc.source.t = "object"
              THEN (IF \E f \in FieldNames \ DOMAIN FIELD_CONFIG : doc.source.f[f] # Absent
                    THEN {"additionalProperties:_source"} ELSE {})
                   \cup (IF \A f \in FieldNames : doc.source.f[f] = Absent
                         THEN {"minProperties:_source"} ELSE {})
                   \cup {"type:" \o f : f \in {f \in DOMAIN FIELD_CONFIG :
                             doc.source.f[f] # Absent
                             /\ doc.source.f[f].t \notin {"number", "integer", "string"}}}
              ELSE {})

----------------------------------------------------------------------------
(* split_records_by_cluster.  A poll response is an ordered dict: a         *)
(* sequence of [tp, records]; a record is [offset, value].  The decoded     *)
(* value put in a sub-batch keeps, as history, the partition and offset of  *)
(* the record it was decoded from.                                          *)

Entry(tp, records) == [tp |-> tp, records |-> records]
Record(offset, value) == [offset |-> offset, value |-> value]
Decoded(tp, record) == [tp |-> tp, offset |-> record.offset, value |-> record.value.doc]

RECURSIVE Flatten(_)
\* `for records in poll_response.values(): for record in records`
Flatten(poll) ==
    IF poll = <<>> THEN <<>>
    ELSE [i \in 1..Len(poll[1].records) |->
              [tp |-> poll[1].tp, record |-> poll[1].records[i]]]
         \o Flatten(Tail(poll))

\* `for i, indices in enumerate(indices_on_clusters): if value['_index'] in indices`
\* the position of the first set holding the name, 0 when the loop ends without break
FirstMatch_Last(indices_on_clusters, name) ==
    IF \E i \in 1..Len(indices_on_clusters) : name \in indices_on_clusters[i]
    THEN CHOOSE i \in 1..Len(indices_on_clusters) :
             /\ name \in indices_on_clusters[i]
             /\ \A j \in 1..Len(indices_on_clusters) : name \in indices_on_clusters[j] => j <= i
    ELSE 0

FirstMatch(indices_on_clusters, name) ==
    IF \E i \in 1..Len(indices_on_clusters) : name \in indices_on_clusters[i]
    THEN CHOOSE i \in 1..Len(indices_on_clusters) :
             /\ name \in indices_on_clusters[i]
             /\ \A j \in 1..(i - 1) : name \notin indices_on_clusters[j]
    ELSE 0

\* the except ValueError branch: log and continue
OnDecodeError_Counted(st) ==
    [st EXCEPT !.counters = Inc(@, "fail_validate", 1), !.warnings = @ + 1]

OnDecodeError(st) == [st EXCEPT !.warnings = @ + 1]

\* the `if errors:` branch: Metric.FAIL_VALIDATE.inc(), log and continue
OnInvalid_PerError(st, errors) ==
    [st EXCEPT !.counters = Inc(@, "fail_validate", Cardinality(errors)), !.warnings = @ + 1]

OnInvalid(st, errors) ==
    [st EXCEPT !.counters = Inc(@, "fail_validate", 1), !.warnings = @ + 1]

\* the `else` of the routing loop: Metric.MISSING_INDEX.inc() and log
OnMissingIndex_AsInvalid(st) ==
    [st EXCEPT !.counters = Inc(Inc(@, "missing_index", 1), "fail_validate", 1),
               !.warnings = @ + 1]

OnMissingIndex_Silent(st) == [st EXCEPT !.warnings = @ + 1]

OnMissingIndex(st) ==
    [st EXCEPT !.counters = Inc(@, "missing_index", 1), !.warnings = @ + 1]

\* `split[i].append(value)`
Place_Front(sub, d) == <<d>> \o sub

Place(sub, d) == Append(sub, d)

\* the body of the loop over the records
SplitRecord(st, indices_on_clusters, tp, record) ==
    IF ~Decodes(record.value) THEN OnDecodeError(st)
    ELSE LET value == record.value.doc
             errors == Errors(value)
         IN  IF errors # {} THEN OnInvalid(st, errors)
             ELSE LET i == FirstMatch(indices_on_clusters, value.index.v)
                  IN  IF i # 0
                      THEN [st EXCEPT !.split[i] = Place(@, Decoded(tp, record))]
                      ELSE OnMissingIndex(st)

RECURSIVE SplitLoop(_, _, _)
SplitLoop(st, indices_on_clusters, flat) ==
    IF flat = <<>> THEN st
    ELSE SplitLoop(SplitRecord(st, indices_on_clusters, flat[1].tp, flat[1].record),
                   indices_on_clusters, Tail(flat))

\* [split, counters, warnings]: the list returned, the counters after the call and
\* the number of log.warning calls it made
split_records_by_cluster(indices_on_clusters, poll_response, c) ==
    SplitLoop([split |-> [i \in 1..Len(indices_on_clusters) |-> <<>>], counters |-> c,
               warnings |-> 0],
              indices_on_clusters, Flatten(poll_response))

----------------------------------------------------------------------------
(* expand_action: the bulk action line and the script body of one message, *)
(* as the pair the function returns                                        *)

expand_action_StringId(message) ==
    <<[update |-> [_index |-> message.index, _type |-> "page",
                   _id |-> V("string", message.id.v)]],
      [script |-> [inline |-> "super_detect_noop", lang |-> "native",
                   params |-> [handlers |-> [field \in {f \in FieldNames : message.source.f[f] # Absent}
                                                 |-> FIELD_CONFIG[field]],
                               source |-> message.source]]]>>

expand_action(message) ==
    LET action == [update |-> [_index |-> message.index, _type |-> "page", _id |-> message.id]]
        noop_handlers == [field \in {f \in FieldNames : message.source.f[f] # Absent}
                              |-> FIELD_CONFIG[field]]
        source == [script |-> [inline |-> "super_detect_noop", lang |-> "native",
                               params |-> [handlers |-> noop_handlers,
                                           source |-> message.source]]]
    IN  <<action, source>>

\* what streaming_bulk makes of the records: each message with what expand_action returns
Expanded(recs) == [i \in 1..Len(recs) |->
                      [message |-> recs[i].value, out |-> expand_action(recs[i].value)]]

----------------------------------------------------------------------------
(* stream_to_es.  A bulk response item is the object under its single      *)
(* operation key: status (possibly missing) and result (possibly missing). *)

Item(has_status, status, result) ==
    [has_status |-> has_status, status |-> status, result |-> result]

BulkItems == {Item(TRUE, 200, "updated"), Item(TRUE, 201, "created"), Item(TRUE, 200, "noop"),
              Item(TRUE, 200, "deleted"), Item(TRUE, 200, "absent"), Item(TRUE, 404, "absent"),
              Item(TRUE, 404, "updated"), Item(TRUE, 409, "absent"), Item(FALSE, 0, "absent"),
              Item(FALSE, 0, "updated")}

\* result.get('status', 500)
Status_Default404(item) == IF item.has_status THEN item.status ELSE 404

Status(item) == IF item.has_status THEN item.status ELSE 500

\* the `ok` streaming_bulk yields with the item: a 2xx status
Ok(item) == 200 <= Status(item) /\ Status(item) < 300

\* the labels incremented for one response item
BulkLabelsOf_Fallthrough(item) ==
    IF Ok(item)
    THEN IF item.result # "absent" /\ item.result \in ACTION_RESULTS
         THEN {item.result} ELSE {"ok_unknown"}
    ELSE (IF Status(item) = 404 THEN {"missing"} ELSE {}) \cup {"failed"}

BulkLabelsOf(item) ==
    IF Ok(item)
    THEN IF item.result # "absent" /\ item.result \in ACTION_RESULTS
         THEN {item.result} ELSE {"ok_unknown"}
    ELSE IF Status(item) = 404 THEN {"missing"}
    ELSE {"failed"}

\* the body of the loop over the response items
BulkItem(c, item) == [l \in DOMAIN c |-> IF l \in BulkLabelsOf(item) THEN c[l] + 1 ELSE c[l]]

\* line 120: the log.warning of the last branch
Logged(item) == ~Ok(item) /\ Status(item) # 404

\* the log.warning calls of a whole response
Warned(items) == Cardinality({i \in 1..Len(items) : Logged(items[i])})

RECURSIVE stream_to_es(_, _)
\* the counters after the whole response has been consumed
stream_to_es(c, items) ==
    IF items = <<>> THEN c ELSE stream_to_es(BulkItem(c, items[1]), Tail(items))

----------------------------------------------------------------------------
(* ttl_memoize.  The cache is keyed by the arguments, and the route table  *)
(* is read with none: it holds no entry or one.  A produced value is        *)
(* [id, table]: id tells the objects of different producer calls apart.     *)

MemoizeEntry(value, valid_until) == [value |-> value, valid_until |-> valid_until]

\* `if args in cache: ... if entry.valid_until > now`
Hit_Inclusive(c, now) == c # <<>> /\ c[1].valid_until >= now

Hit(c, now) == c # <<>> /\ c[1].valid_until > now

\* `cache[args] = MemoizeEntry(value, now + TTL)`
Store_LongLived(value, now) == <<MemoizeEntry(value, now + 2 * TTL)>>

Store(value, now) == <<MemoizeEntry(value, now + TTL)>>

NoValue == [id |-> 0, table |-> <<>>]

\* memoized(): the outcomes of one read at time `now`, the producer returning one of
\* `tables` or raising: [raised, value, cache, nbuilds]
memoized(c, now, n, tables) ==
    IF Hit(c, now)
    THEN {[raised |-> FALSE, value |-> c[1].value, cache |-> c, nbuilds |-> n]}
    ELSE {[raised |-> FALSE, value |-> [id |-> n + 1, table |-> t],
           cache |-> Store([id |-> n + 1, table |-> t], now), nbuilds |-> n + 1] : t \in tables}
         \cup {[raised |-> TRUE, value |-> NoValue, cache |-> c, nbuilds |-> n + 1]}

----------------------------------------------------------------------------
(* make_es_clusters.  u[i] is the cluster_uuid the i-th bootstrap host      *)
(* reports.                                                                 *)

RECURSIVE SeenLoop(_, _, _)
\* `for cluster in clusters`: the position of the first host whose uuid is in `seen`,
\* 0 when the loop ends
SeenLoop(u, i, seen) ==
    IF i > Len(u) THEN 0
    ELSE IF u[i] \in seen THEN i
    ELSE SeenLoop(u, i + 1, seen \cup {u[i]})

make_es_clusters_NoCheck(u) == [raised |-> FALSE, clusters |-> [i \in 1..Len(u) |-> i]]

\* [raised, clusters]: the ValueError, or the list returned
make_es_clusters(u) ==
    IF SeenLoop(u, 1, {}) # 0
    THEN [raised |-> TRUE, clusters |-> <<>>]
    ELSE [raised |-> FALSE, clusters |-> [i \in 1..Len(u) |-> i]]

----------------------------------------------------------------------------
(* The inputs *)

\* what the configured hosts may report: uuids are opaque, so one naming of each
\* pattern of equal and different uuids
Uuids == {u \in [Clusters -> Clusters] :
             /\ u[1] = 1
             /\ \A i \in Clusters \ {1} : \E j \in 1..(i - 1) : u[i] <= u[j] + 1}

\* every route table over the index names: one set of names per cluster
RouteTables == [Clusters -> SUBSET IndexNames]

\* the route tables the clusters of the consume loop report: disjoint, overlapping,
\* and one where index B has gone
TableOf(a, b) == [c \in Clusters |-> IF c = 1 THEN a ELSE IF c = 2 THEN b ELSE {}]
RunTables == {TableOf({"A"}, {"B"}), TableOf({"A"}, {})}

MkRecords(first, s) == [i \in 1..Len(s) |-> Record(first + i - 1, s[i])]

\* a poll response holding the payloads s: the first k on t0, the others on t1
PollOf(s, k, rev) ==
    LET a == Entry("t0", MkRecords(0, SubSeq(s, 1, k)))
        b == Entry("t1", MkRecords(0, SubSeq(s, k + 1, Len(s))))
    IN  IF k = 0 THEN <<b>>
        ELSE IF k = Len(s) THEN <<a>>
        ELSE IF rev THEN <<b, a>> ELSE <<a, b>>

SplitPolls ==
    UNION {UNION {{PollOf(s, k, rev) : k \in 0..n, rev \in BOOLEAN} :
                  s \in [1..n -> SplitPayloads]} : n \in 1..MaxSplitRecs}

BulkResponses == UNION {[1..n -> BulkItems] : n \in 0..MaxItems}

\* validated messages: integer and string _id, number, string and integer score
BulkDocOrder == <<ValidDoc("A"), PStrId.doc,
                  Doc("object", V("string", "Z"), V("integer", "7"), Score(V("integer", "3")), FALSE)>>

\* n records handed to stream_to_es, taken in turn from BulkDocOrder
RecordsFrom(start, n) ==
    [i \in 1..n |-> Decoded("t0", Record(i - 1, Json(BulkDocOrder[((start + i - 1) % Len(BulkDocOrder)) + 1])))]

TimePoints == {0, 1, TTL - 1, TTL, TTL + 1, 2 * TTL, 2 * TTL + 1}

----------------------------------------------------------------------------
(* The variables a specification does not use keep these values *)

RunIdle ==
    /\ mono = 0 /\ last_commit = 0 /\ offsets = <<>> /\ ci = 0
    /\ observations = 0 /\ position = [p \in Partitions |-> 0]
    /\ log = [p \in Partitions |-> <<>>] /\ closed = FALSE /\ raised = <<>>
    /\ polls = 0 /\ calls = <<>> /\ commits = <<>> /\ hist = {}
    /\ uuids = <<>> /\ nonempty = 0

runVars == <<mono, last_commit, offsets, ci, observations, position, log, closed,
             raised, polls, calls, commits, hist, uuids, nonempty>>
bulkVars == <<actions, warnings, sent>>
splitVars == <<batch, indices, split>>
memoVars == <<wall, cache, nbuilds, reads>>

SplitIdle == batch = <<>> /\ indices = <<>> /\ split = <<>>
MemoIdle == wall = 0 /\ cache = <<>> /\ nbuilds = 0 /\ reads = <<>>
BulkIdle == actions = <<>> /\ warnings = 0 /\ sent = <<>>

----------------------------------------------------------------------------
(* SpecSplit: split_records_by_cluster called once on any bounded input *)

InitSplit ==
    /\ pc = "split_call"
    /\ indices \in RouteTables
    /\ batch \in SplitPolls
    /\ split = <<>>
    /\ counters = ZeroCounters
    /\ responses = <<>>
    /\ RunIdle /\ MemoIdle /\ BulkIdle

CallSplit ==
    /\ pc = "split_call"
    /\ LET r == split_records_by_cluster(indices, batch, counters)
       IN  split' = r.split /\ counters' = r.counters /\ warnings' = warnings + r.warnings
    /\ pc' = "split_done"
    /\ UNCHANGED <<batch, indices, responses, actions, sent, runVars, memoVars>>

NextSplit == CallSplit
SpecSplit == InitSplit /\ [][NextSplit]_vars

----------------------------------------------------------------------------
(* SpecBulk: the loop of stream_to_es over the items streaming_bulk yields *)

InitBulk ==
    /\ pc = "bulk_loop"
    /\ responses \in BulkResponses
    /\ \E start \in 1..Len(BulkDocOrder) : actions = RecordsFrom(start, Len(responses))
    /\ counters = ZeroCounters
    /\ warnings = 0 /\ sent = <<>>
    /\ RunIdle /\ MemoIdle /\ SplitIdle

\* one iteration of `for ok, result in streaming_bulk(...)`
BulkNext ==
    /\ pc = "bulk_loop" /\ responses # <<>>
    /\ sent' = sent \o Expanded(<<Head(actions)>>)
    /\ actions' = Tail(actions)
    /\ counters' = BulkItem(counters, Head(responses))
    /\ warnings' = warnings + Warned(<<Head(responses)>>)
    /\ responses' = Tail(responses)
    /\ UNCHANGED <<pc, runVars, memoVars, splitVars>>

\* the generator is exhausted: stream_to_es returns
BulkReturn ==
    /\ pc = "bulk_loop" /\ responses = <<>>
    /\ pc' = "bulk_done"
    /\ UNCHANGED <<responses, counters, runVars, memoVars, splitVars, bulkVars>>

\* streaming_bulk raises (a transport error): the items left are never yielded
BulkRaise ==
    /\ pc = "bulk_loop" /\ responses # <<>>
    /\ pc' = "bulk_raised" /\ responses' = <<>>
    /\ UNCHANGED <<counters, runVars, memoVars, splitVars, bulkVars>>

NextBulk == BulkNext \/ BulkReturn \/ BulkRaise
SpecBulk == InitBulk /\ [][NextBulk]_vars

----------------------------------------------------------------------------
(* SpecMemo: reads of the memoized route table at the times of a wall      *)
(* clock, which time.time() allows to step backwards                       *)

InitMemo ==
    /\ pc = "memo"
    /\ wall = 0 /\ cache = <<>> /\ nbuilds = 0 /\ reads = <<>>
    /\ counters = ZeroCounters /\ responses = <<>>
    /\ RunIdle /\ SplitIdle /\ BulkIdle

MemoTick ==
    /\ pc = "memo"
    /\ wall' \in TimePoints \ {wall}
    /\ UNCHANGED <<pc, cache, nbuilds, reads, counters, responses, runVars, splitVars, bulkVars>>

ReadEntry(t, r, n) == [t |-> t, id |-> r.value.id, built |-> r.nbuilds # n]

\* one call of memoized(), returning or raising
MemoRead ==
    /\ pc = "memo" /\ Len(reads) < MaxReads
    /\ \E r \in memoized(cache, wall, nbuilds, RunTables) :
          /\ cache' = r.cache /\ nbuilds' = r.nbuilds
          /\ reads' = Append(reads, ReadEntry(wall, r, nbuilds))
    /\ UNCHANGED <<pc, wall, counters, responses, runVars, splitVars, bulkVars>>

NextMemo == MemoTick \/ MemoRead
SpecMemo == InitMemo /\ [][NextMemo]_vars

----------------------------------------------------------------------------
(* Spec: run().  The consumer reads partitions whose content `log` is      *)
(* fixed when the run starts; both clocks advance while the loop blocks: in *)
(* poll(), which returns at once when records are there and after its      *)
(* timeout when none are, and in the bulk submissions of a batch.          *)

PollTimeout == 60
SubmitDelays == {0, 300}

\* the response items of the consume loop: the documents of index A exist and are
\* updated, the others are missing
ResponseFor(d) ==
    IF d.value.index.v = "A" THEN Item(TRUE, 200, "updated") ELSE Item(TRUE, 404, "absent")

\* the first partition holds LogLen records, the others a single one
Logs == {l \in [Partitions -> UNION {[1..n -> RunPayloads] : n \in {1, LogLen}}] :
            \A i \in 1..Len(PartitionOrder) :
                Len(l[PartitionOrder[i]]) = IF i = 1 THEN LogLen ELSE 1}

\* a stream_to_es call as the history keeps it: the poll it belongs to, the cluster,
\* the records, and whether it returned or raised
Call(cluster, recs, outcome) ==
    [poll |-> polls, cluster |-> cluster, records |-> recs, outcome |-> outcome]

\* `if records:`
ShouldSubmit_Always(recs) == TRUE

ShouldSubmit(recs) == recs # <<>>

Commit(kind, offs) == [kind |-> kind, offsets |-> offs, at |-> Len(calls)]

\* `if offsets and now - last_commit > offset_commit_interval_sec`
GateOpen_Inclusive(offs, now, last) ==
    DOMAIN offs # {} /\ now - last >= offset_commit_interval_sec

GateOpen(offs, now, last) ==
    DOMAIN offs # {} /\ now - last > offset_commit_interval_sec

\* `records[-1].offset + 1`
NextOffset_Skip(records) == records[Len(records)].offset + 2

NextOffset(records) == records[Len(records)].offset + 1

\* `for tp, records in batch.items(): offsets[tp] = OffsetAndMetadata(...)`
Staged_Replace(offs, b) ==
    [tp \in {b[i].tp : i \in 1..Len(b)} |->
        NextOffset(b[CHOOSE i \in 1..Len(b) : b[i].tp = tp].records)]

Staged(offs, b) ==
    LET tps == {b[i].tp : i \in 1..Len(b)}
        entry(tp) == CHOOSE i \in 1..Len(b) : b[i].tp = tp
    IN  [tp \in DOMAIN offs \cup tps |->
            IF tp \in tps THEN NextOffset(b[entry(tp)].records) ELSE offs[tp]]

\* what consumer.poll() returns when it hands out n[tp] records of each partition
PollResponse(n) ==
    LET entries == [i \in 1..Len(PartitionOrder) |->
                       LET tp == PartitionOrder[i]
                       IN  Entry(tp, MkRecords(position[tp],
                                   SubSeq(log[tp], position[tp] + 1, position[tp] + n[tp])))]
    IN  SelectSeq(entries, LAMBDA e : e.records # <<>>)

\* `if not batch: continue`: where run() goes on after a poll that returned b
AfterPoll_NoContinue(b) == "route"

AfterPoll(b) == IF b = <<>> THEN "gate" ELSE "route"

\* `with Metric.SUBMIT_BATCH.time()`: the block is left, by its end or by an exception
TimerExit_Never(obs) == obs

TimerExit(obs) == obs + 1

RECURSIVE Total(_)
\* `sum(len(x) for x in batch.values())`
Total(b) == IF b = <<>> THEN 0 ELSE Len(b[1].records) + Total(Tail(b))

Init ==
    /\ pc = "startup"
    /\ mono = 0 /\ wall = 0
    /\ last_commit = 0
    /\ offsets = <<>>
    /\ batch = <<>> /\ indices = <<>> /\ split = <<>> /\ ci = 0
    /\ cache = <<>> /\ nbuilds = 0
    /\ counters = ZeroCounters /\ observations = 0
    /\ position = [p \in Partitions |-> 0]
    /\ log \in Logs
    /\ closed = FALSE /\ raised = <<>> /\ polls = 0
    /\ calls = <<>> /\ commits = <<>> /\ hist = {}
    /\ reads = <<>> /\ responses = <<>> /\ BulkIdle
    /\ uuids \in Uuids /\ nonempty = 0

\* line 192: make_es_clusters returns and the consumer is created and subscribed, or
\* it raises and run() is left before the `try`
MakeClusters ==
    /\ pc = "startup"
    /\ IF make_es_clusters(uuids).raised
       THEN raised' = Append(raised, "startup") /\ pc' = "aborted"
       ELSE pc' = "gate" /\ UNCHANGED raised
    /\ UNCHANGED <<mono, wall, last_commit, offsets, batch, indices, split, ci, cache,
                   nbuilds, counters, observations, position, log, closed, polls, calls,
                   commits, hist, reads, responses>>
    /\ UNCHANGED <<actions, warnings, sent, uuids, nonempty>>

\* line 180: cluster.info() raises (a host cannot be reached)
InfoRaise ==
    /\ pc = "startup"
    /\ raised' = Append(raised, "info") /\ pc' = "aborted"
    /\ UNCHANGED <<mono, wall, last_commit, offsets, batch, indices, split, ci, cache,
                   nbuilds, counters, observations, position, log, closed, polls, calls,
                   commits, hist, reads, responses>>
    /\ UNCHANGED <<actions, warnings, sent, uuids, nonempty>>

\* lines 220-224: the commit gate at the top of the loop
Gate ==
    /\ pc = "gate"
    /\ IF GateOpen(offsets, mono, last_commit)
       THEN /\ commits' = Append(commits, Commit("async", offsets))
            /\ last_commit' = mono
            /\ offsets' = <<>>
       ELSE UNCHANGED <<commits, last_commit, offsets>>
    /\ pc' = "poll"
    /\ UNCHANGED <<mono, wall, batch, indices, split, ci, cache, nbuilds, counters,
                   observations, position, log, closed, raised, polls, calls, hist,
                   reads, responses>>
    /\ UNCHANGED <<actions, warnings, sent, uuids, nonempty>>

\* lines 226-230: poll returns, an empty response after the timeout
Poll ==
    /\ pc = "poll" /\ polls < MaxPolls
    /\ \E n \in [Partitions -> 0..LogLen] :
          /\ \A tp \in Partitions : position[tp] + n[tp] <= Len(log[tp])
          /\ LET d == IF \A tp \in Partitions : n[tp] = 0 THEN PollTimeout ELSE 0
             IN  mono' = mono + d /\ wall' = wall + d
          /\ batch' = PollResponse(n)
          /\ position' = [tp \in Partitions |-> position[tp] + n[tp]]
          /\ pc' = AfterPoll(batch')
          /\ IF pc' = "gate"
             THEN UNCHANGED counters
             ELSE counters' = Inc(counters, "records_total", Total(batch'))
          /\ nonempty' = IF batch' = <<>> THEN nonempty ELSE nonempty + 1
    /\ polls' = polls + 1
    /\ UNCHANGED <<last_commit, offsets, indices, split, ci, cache, nbuilds, observations,
                   log, closed, raised, calls, commits, hist, reads, responses>>
    /\ UNCHANGED <<actions, warnings, sent, uuids>>

\* poll raises (a kafka error, or the signal that ends the process)
PollRaise ==
    /\ pc = "poll"
    /\ raised' = Append(raised, "poll") /\ pc' = "finally"
    /\ UNCHANGED <<mono, wall, last_commit, offsets, batch, indices, split, ci, cache,
                   nbuilds, counters, observations, position, log, closed, polls, calls,
                   commits, hist, reads, responses>>
    /\ UNCHANGED <<actions, warnings, sent, uuids, nonempty>>

\* lines 232-233: read the route table and split the batch
Route ==
    /\ pc = "route"
    /\ \E r \in memoized(cache, wall, nbuilds, RunTables) :
          /\ ~r.raised
          /\ cache' = r.cache /\ nbuilds' = r.nbuilds
          /\ indices' = r.value.table
          /\ LET s == split_records_by_cluster(r.value.table, batch, counters)
             IN  split' = s.split /\ counters' = s.counters
                 /\ warnings' = warnings + s.warnings
          /\ hist' = hist \cup {[tp |-> f.tp, offset |-> f.record.offset, table |-> r.value.table] :
                                  f \in {Flatten(batch)[i] : i \in 1..Len(Flatten(batch))}}
    /\ ci' = 1 /\ pc' = "submit"
    /\ UNCHANGED <<mono, wall, last_commit, offsets, batch, observations, position, log,
                   closed, raised, polls, calls, commits, reads, responses>>
    /\ UNCHANGED <<actions, sent, uuids, nonempty>>

\* the refresh of the route table raises: a cluster cannot be reached
RouteRaise ==
    /\ pc = "route"
    /\ \E r \in memoized(cache, wall, nbuilds, RunTables) :
          /\ r.raised
          /\ cache' = r.cache /\ nbuilds' = r.nbuilds
    /\ raised' = Append(raised, "route") /\ pc' = "finally"
    /\ UNCHANGED <<mono, wall, last_commit, offsets, batch, indices, split, ci, counters,
                   observations, position, log, closed, polls, calls, commits, hist,
                   reads, responses>>
    /\ UNCHANGED <<actions, warnings, sent, uuids, nonempty>>

\* lines 236-238: one turn of the loop over zip(es_clusters, split)
Submit ==
    /\ pc = "submit" /\ ci <= NumClusters
    /\ IF ~ShouldSubmit(split[ci])
       THEN UNCHANGED <<counters, calls, warnings, sent>>
       ELSE /\ sent' = sent \o Expanded(split[ci])
            /\ counters' = stream_to_es(counters,
                               [i \in 1..Len(split[ci]) |-> ResponseFor(split[ci][i])])
            /\ warnings' = warnings
                   + Warned([i \in 1..Len(split[ci]) |-> ResponseFor(split[ci][i])])
            /\ calls' = Append(calls, Call(ci, split[ci], "returned"))
    /\ ci' = ci + 1
    /\ UNCHANGED <<pc, mono, wall, last_commit, offsets, batch, indices, split, cache, nbuilds,
                   observations, position, log, closed, raised, polls, commits, hist,
                   reads, responses>>
    /\ UNCHANGED <<actions, uuids, nonempty>>

\* stream_to_es raises before any item is yielded (a batch of the model is one
\* chunk); leaving the `with` block records the observation
SubmitRaise ==
    /\ pc = "submit" /\ ci <= NumClusters /\ ShouldSubmit(split[ci])
    /\ calls' = Append(calls, Call(ci, split[ci], "raised"))
    /\ sent' = sent \o Expanded(split[ci])
    /\ observations' = TimerExit(observations)
    /\ raised' = Append(raised, "stream") /\ pc' = "finally"
    /\ UNCHANGED <<mono, wall, last_commit, offsets, batch, indices, split, ci, cache,
                   nbuilds, counters, position, log, closed, polls, commits, hist,
                   reads, responses>>
    /\ UNCHANGED <<actions, warnings, uuids, nonempty>>

\* lines 235, 240-241: the `with` block ends, d seconds after it was entered, and
\* the offsets are staged
Stage ==
    /\ pc = "submit" /\ ci > NumClusters
    /\ \E d \in SubmitDelays : mono' = mono + d /\ wall' = wall + d
    /\ observations' = TimerExit(observations)
    /\ offsets' = Staged(offsets, batch)
    /\ pc' = "gate"
    /\ UNCHANGED <<last_commit, batch, indices, split, ci, cache, nbuilds,
                   counters, position, log, closed, raised, polls, calls, commits, hist,
                   reads, responses>>
    /\ UNCHANGED <<actions, warnings, sent, uuids, nonempty>>

\* lines 243-244: `if offsets: consumer.commit(offsets)` returns
FinallyCommit_Skip ==
    /\ pc = "finally" /\ pc' = "close"
    /\ UNCHANGED <<mono, wall, last_commit, offsets, batch, indices, split, ci, cache,
                   nbuilds, counters, observations, position, log, closed, raised, polls,
                   calls, commits, hist, reads, responses>>
    /\ UNCHANGED <<actions, warnings, sent, uuids, nonempty>>

FinallyCommit ==
    /\ pc = "finally"
    /\ IF DOMAIN offsets # {}
       THEN commits' = Append(commits, Commit("sync", offsets))
       ELSE UNCHANGED commits
    /\ pc' = "close"
    /\ UNCHANGED <<mono, wall, last_commit, offsets, batch, indices, split, ci, cache,
                   nbuilds, counters, observations, position, log, closed, raised, polls,
                   calls, hist, reads, responses>>
    /\ UNCHANGED <<actions, warnings, sent, uuids, nonempty>>

\* line 244: consumer.commit(offsets) raises, and the finally block is left
FinallyCommitRaise ==
    /\ pc = "finally" /\ DOMAIN offsets # {}
    /\ commits' = Append(commits, Commit("sync", offsets))
    /\ raised' = Append(raised, "commit") /\ pc' = "done"
    /\ UNCHANGED <<mono, wall, last_commit, offsets, batch, indices, split, ci, cache,
                   nbuilds, counters, observations, position, log, closed, polls, calls,
                   hist, reads, responses>>
    /\ UNCHANGED <<actions, warnings, sent, uuids, nonempty>>

\* line 245: consumer.close()
Close ==
    /\ pc = "close"
    /\ closed' = TRUE /\ pc' = "done"
    /\ UNCHANGED <<mono, wall, last_commit, offsets, batch, indices, split, ci, cache,
                   nbuilds, counters, observations, position, log, raised, polls, calls,
                   commits, hist, reads, responses>>
    /\ UNCHANGED <<actions, warnings, sent, uuids, nonempty>>

Next == MakeClusters \/ InfoRaise \/ Gate \/ Poll \/ PollRaise \/ Route \/ RouteRaise \/ Submit \/ SubmitRaise
        \/ Stage \/ FinallyCommit \/ FinallyCommitRaise \/ Close
Spec == Init /\ [][Next]_vars

\* run() is one thread that takes its next step as long as it has one
FairSpec == Spec /\ WF_vars(Next)

----------------------------------------------------------------------------
(* What the properties speak of *)

FlatSet(b) == {Flatten(b)[i] : i \in 1..Len(Flatten(b))}

\* the records passed to stream_to_es by the first n calls
SubmittedBefore(n) ==
    UNION {{<<calls[i].records[j].tp, calls[i].records[j].offset>> :
              j \in 1..Len(calls[i].records)} : i \in 1..n}

\* a record the splitter has to place: it decodes, passes the schema and its
\* _index is in a set of the route table read for its batch
Deliverable(h) ==
    LET payload == log[h.tp][h.offset + 1]
    IN  /\ Decodes(payload)
        /\ Errors(payload.doc) = {}
        /\ \E c \in 1..Len(h.table) : payload.doc.index.v \in h.table[c]

\* the first offset of each partition of the batch in hand
FirstOffsets == {<<batch[i].tp, batch[i].records[1].offset>> : i \in 1..Len(batch)}

----------------------------------------------------------------------------
(* C1 - offset safety *)

\* C1, as stated: every record of a partition below an offset passed to a commit
\* call, and returned by a poll, was passed to stream_to_es before that call.
C1_Orig ==
    \A k \in 1..Len(commits) : \A tp \in DOMAIN commits[k].offsets :
        \A off \in 0..(commits[k].offsets[tp] - 1) :
            off < position[tp] => <<tp, off>> \in SubmittedBefore(commits[k].at)

\* C1, amended: every record below an offset passed to a commit call that the
\* splitter did not drop (it decodes, passes the schema and its _index is routed)
\* was passed to stream_to_es before that commit call.
C1_OffsetSafety ==
    \A k \in 1..Len(commits) : \A h \in hist :
        (/\ h.tp \in DOMAIN commits[k].offsets
         /\ h.offset < commits[k].offsets[h.tp]
         /\ Deliverable(h))
        => <<h.tp, h.offset>> \in SubmittedBefore(commits[k].at)

\* a commit call covering a record that was submitted and one that was dropped
C1_Witness ==
    \E k \in 1..Len(commits) : \E h, g \in hist :
        /\ h.tp \in DOMAIN commits[k].offsets /\ h.offset < commits[k].offsets[h.tp]
        /\ g.tp \in DOMAIN commits[k].offsets /\ g.offset < commits[k].offsets[g.tp]
        /\ Deliverable(h) /\ ~Deliverable(g)
        /\ <<h.tp, h.offset>> \in SubmittedBefore(commits[k].at)

----------------------------------------------------------------------------
(* C2 - the shutdown path *)

\* C2, as stated: when run() has been left, the staged offsets, if any, were
\* passed to a synchronous commit and the consumer is closed, also when that
\* commit raised.
C2_ShutdownCommitsAndCloses ==
    pc = "done" =>
        /\ DOMAIN offsets # {} =>
              /\ commits # <<>>
              /\ commits[Len(commits)].kind = "sync"
              /\ commits[Len(commits)].offsets = offsets
        /\ closed

\* what holds of the code: the consumer is closed unless the commit raised
C2_ClosedUnlessCommitRaises ==
    pc = "done" =>
        /\ DOMAIN offsets # {} =>
              /\ commits # <<>>
              /\ commits[Len(commits)].kind = "sync"
              /\ commits[Len(commits)].offsets = offsets
        /\ closed <=> raised[Len(raised)] # "commit"

----------------------------------------------------------------------------
(* C3 - the commit gate *)

GateEffect(open) ==
    IF open
    THEN /\ commits' = Append(commits, [kind |-> "async", offsets |-> offsets, at |-> Len(calls)])
         /\ last_commit' = mono
         /\ offsets' = <<>>
         /\ pc' = "poll"
    ELSE /\ commits' = commits /\ last_commit' = last_commit /\ offsets' = offsets
         /\ pc' = "poll"

\* C3, as stated: the gate commits asynchronously if and only if offsets are
\* staged and at least 60 s (the boundary included) have passed since the last
\* commit; the commit carries the staged offsets, the time of the last commit
\* becomes the current time and the staging map is empty before the poll.
C3_Orig ==
    [][pc = "gate" =>
          GateEffect(DOMAIN offsets # {} /\ mono - last_commit >= offset_commit_interval_sec)]_vars

\* C3, amended: the same with more than 60 s (at exactly 60 s nothing is committed).
C3_CommitGate ==
    [][pc = "gate" =>
          GateEffect(DOMAIN offsets # {} /\ mono - last_commit > offset_commit_interval_sec)]_vars

\* the gate has just committed the staged offsets
C3_Witness ==
    /\ pc = "poll" /\ commits # <<>>
    /\ commits[Len(commits)].kind = "async"
    /\ DOMAIN commits[Len(commits)].offsets # {}
    /\ last_commit = mono /\ mono > 0 /\ offsets = <<>>

\* the gate has just declined at the boundary
C3_Boundary ==
    pc = "poll" /\ DOMAIN offsets # {} /\ mono - last_commit = offset_commit_interval_sec

----------------------------------------------------------------------------
(* C4 - a failed batch stages nothing *)

BatchFailed == raised # <<>> /\ raised[1] \in {"route", "stream"}

NothingOfBatchStaged ==
    /\ \A f \in FirstOffsets : f[1] \in DOMAIN offsets => offsets[f[1]] <= f[2]
    /\ \A k \in 1..Len(commits) : \A f \in FirstOffsets :
          f[1] \in DOMAIN commits[k].offsets => commits[k].offsets[f[1]] <= f[2]

\* C4, as stated: when the refresh of the route table or a bulk submission
\* raises, no offset of that batch is staged or committed, the offsets staged by
\* earlier batches are committed synchronously, the consumer is closed and the
\* exception propagates.
C4_FailedBatchStagesNothing ==
    (pc = "done" /\ BatchFailed) =>
        /\ NothingOfBatchStaged
        /\ DOMAIN offsets # {} =>
              commits # <<>> /\ commits[Len(commits)] = [kind |-> "sync", offsets |-> offsets,
                                                         at |-> Len(calls)]
        /\ closed

\* what holds of the code: all of it but the close, which is skipped when the
\* synchronous commit raises
C4_ExceptClose ==
    /\ (pc \in {"finally", "close", "done"} /\ BatchFailed) => NothingOfBatchStaged
    /\ (pc = "done" /\ BatchFailed) =>
          /\ DOMAIN offsets # {} =>
                commits # <<>> /\ commits[Len(commits)] = [kind |-> "sync", offsets |-> offsets,
                                                           at |-> Len(calls)]
          /\ closed <=> raised[Len(raised)] # "commit"

----------------------------------------------------------------------------
(* C5, C6, C7 - the splitter, on the result of one call (SpecSplit) *)

Undecodable == {f \in FlatSet(batch) : ~Decodes(f.record.value)}
Invalid == {f \in FlatSet(batch) : Decodes(f.record.value) /\ Errors(f.record.value.doc) # {}}
Validated == {f \in FlatSet(batch) : Decodes(f.record.value) /\ Errors(f.record.value.doc) = {}}

\* how often record f stands in sub-batch i
Occurrences(i, f) ==
    Cardinality({j \in 1..Len(split[i]) :
                    split[i][j].tp = f.tp /\ split[i][j].offset = f.record.offset})

InNoSubBatch(f) == \A i \in 1..Len(split) : Occurrences(i, f) = 0

RECURSIVE SizeSum(_)
SizeSum(ss) == IF ss = <<>> THEN 0 ELSE Len(ss[1]) + SizeSum(Tail(ss))

\* C5: a record whose decoded value fails the schema is in no sub-batch, and
\* fail_validate has grown by one for each such record, whatever the number of
\* its violations.
C5_ValidationClosure ==
    pc = "split_done" =>
        /\ \A f \in Invalid : InNoSubBatch(f)
        /\ \A i \in 1..Len(split) : \A j \in 1..Len(split[i]) : Errors(split[i][j].value) = {}
        /\ counters["fail_validate"] = Cardinality(Invalid)

\* a call that met a record with several violations, and another invalid record
C5_Witness ==
    /\ pc = "split_done"
    /\ Cardinality(Invalid) = 2
    /\ \E f \in Invalid : Cardinality(Errors(f.record.value.doc)) >= 2

\* C6, as stated: a payload that is not UTF-8 or not JSON is in no sub-batch and
\* adds one to fail_validate.
C6_Orig ==
    pc = "split_done" =>
        /\ \A f \in Undecodable : InNoSubBatch(f)
        /\ counters["fail_validate"] = Cardinality(Invalid) + Cardinality(Undecodable)

\* C6, amended: such a payload is in no sub-batch, the call returns, and no
\* counter grows for it: the sub-batches and the two invalid_records counters
\* account for the decodable records alone.
C6_MalformedDropped ==
    pc = "split_done" =>
        /\ \A f \in Undecodable : InNoSubBatch(f)
        /\ Len(split) = Len(indices)
        /\ SizeSum(split) + counters["fail_validate"] + counters["missing_index"]
              = Cardinality(FlatSet(batch)) - Cardinality(Undecodable)
        /\ \A l \in Labels \ InvalidLabels : counters[l] = 0

\* a call on a response with a payload that is not UTF-8 and one that is not JSON
C6_Witness ==
    /\ pc = "split_done"
    /\ \E f, g \in Undecodable : f.record.value.enc # "utf-8" /\ g.record.value.text # "json"
    /\ counters["fail_validate"] = 0

\* the clusters whose set holds the _index of a validated record
Matching(f) == {i \in 1..Len(indices) : f.record.value.doc.index.v \in indices[i]}

\* C7: a validated record stands once in the sub-batch of the lowest-indexed
\* cluster whose set holds its _index and in no other sub-batch, and in none
\* when no set holds it.
C7_RouteDeterminism ==
    pc = "split_done" =>
        \A f \in Validated :
            IF Matching(f) = {} THEN InNoSubBatch(f)
            ELSE LET lowest == CHOOSE i \in Matching(f) : \A j \in Matching(f) : i <= j
                 IN  \A i \in 1..Len(split) :
                        Occurrences(i, f) = IF i = lowest THEN 1 ELSE 0

\* a record whose _index two clusters hold went to the first, and another to none
C7_Witness ==
    /\ pc = "split_done"
    /\ \E f, g \in Validated :
          /\ Cardinality(Matching(f)) >= 2 /\ Occurrences(1, f) = 1
          /\ Matching(g) = {}

----------------------------------------------------------------------------
(* C8 - ordering within a partition (Spec) *)

RECURSIVE Submissions(_, _)
\* the records passed to stream_to_es, in the order they were passed
Submissions(cs, k) ==
    IF k > Len(cs) THEN <<>>
    ELSE [j \in 1..Len(cs[k].records) |->
             [cluster |-> cs[k].cluster, tp |-> cs[k].records[j].tp,
              offset |-> cs[k].records[j].offset]]
         \o Submissions(cs, k + 1)

\* the staged offset of a partition stands below the batch in hand, and below it
\* every record the splitter placed has been submitted
StagedAfterBatch ==
    /\ pc \in {"route", "submit"} =>
          \A f \in FirstOffsets : f[1] \in DOMAIN offsets => offsets[f[1]] <= f[2]
    /\ \A h \in hist :
          (h.tp \in DOMAIN offsets /\ h.offset < offsets[h.tp] /\ Deliverable(h))
          => <<h.tp, h.offset>> \in SubmittedBefore(Len(calls))

\* C8, as stated: the records of a partition are submitted in poll order,
\* whichever clusters they are routed to, and the staged offset advances only
\* after the whole batch has been submitted.
C8_Orig ==
    LET s == Submissions(calls, 1)
    IN  /\ \A i, j \in 1..Len(s) :
              (s[i].tp = s[j].tp /\ s[i].offset < s[j].offset) => i < j
        /\ StagedAfterBatch

\* C8, amended: the records of a partition routed to the same cluster are
\* submitted in poll order, and the staged offset advances only after the whole
\* batch has been submitted.
C8_OrderWithinCluster ==
    LET s == Submissions(calls, 1)
    IN  /\ \A i, j \in 1..Len(s) :
              (s[i].tp = s[j].tp /\ s[i].cluster = s[j].cluster /\ s[i].offset < s[j].offset)
              => i < j
        /\ StagedAfterBatch

\* two records of a partition went to one cluster in order, and the offset
\* after them is staged
C8_Witness ==
    LET s == Submissions(calls, 1)
    IN  \E i, j \in 1..Len(s) :
          /\ i < j /\ s[i].tp = s[j].tp /\ s[i].cluster = s[j].cluster
          /\ s[i].tp \in DOMAIN offsets /\ offsets[s[i].tp] = s[j].offset + 1

----------------------------------------------------------------------------
(* C9 - the TTL of the route table (SpecMemo) *)

Returned(j) == reads[j].id # 0
NonDecreasing == \A i, j \in 1..Len(reads) : i < j => reads[i].t <= reads[j].t

\* the reads before read j that built a value, and the last of them
BuildsBefore(j) == {i \in 1..(j - 1) : reads[i].built /\ Returned(i)}
LastBuild(j) == CHOOSE i \in BuildsBefore(j) : \A k \in BuildsBefore(j) : k <= i

\* C9, as stated: two reads less than 300 s apart return the same object, and a
\* read more than 300 s after the read that built the cached value calls the
\* producer.
C9_Orig ==
    NonDecreasing =>
        /\ \A i, j \in 1..Len(reads) :
              (i < j /\ Returned(i) /\ Returned(j) /\ reads[j].t - reads[i].t < TTL)
              => reads[i].id = reads[j].id
        /\ \A j \in 1..Len(reads) :
              (BuildsBefore(j) # {} /\ reads[j].t - reads[LastBuild(j)].t > TTL)
              => reads[j].built

\* C9, amended: a read made less than 300 s after the read that built the cached
\* value returns that object and does not call the producer; a read made 300 s
\* or more after it (and a read with nothing cached) calls the producer, and
\* what it returns is a new object.
C9_TTL ==
    \A j \in 1..Len(reads) :
        IF BuildsBefore(j) = {} THEN reads[j].built
        ELSE LET b == LastBuild(j)
             IN  IF reads[j].t < reads[b].t + TTL
                 THEN ~reads[j].built /\ reads[j].id = reads[b].id
                 ELSE reads[j].built /\ reads[j].id # reads[b].id

\* a read 299 s after the build returned the cached object, the next one at
\* 300 s a new one
C9_Witness ==
    \E i, j, k \in 1..Len(reads) :
        /\ i < j /\ j < k
        /\ reads[i].built /\ Returned(i)
        /\ reads[j].t = reads[i].t + 299 /\ reads[j].id = reads[i].id
        /\ reads[k].t = reads[i].t + 300 /\ reads[k].built /\ Returned(k)

----------------------------------------------------------------------------
(* C10 - counter totality (SpecBulk) *)

\* C10: consuming one response item adds one to exactly one of the six
\* bulk_action counters and changes no other counter.
C10_CounterTotality ==
    [][(pc = "bulk_loop" /\ pc' = "bulk_loop" /\ responses' # responses) =>
          /\ \E l \in BulkLabels :
                /\ counters'[l] = counters[l] + 1
                /\ \A m \in Labels \ {l} : counters'[m] = counters[m]]_vars

\* a response of a 404 item, a failed item and an item without result has been consumed
C10_Witness ==
    /\ pc = "bulk_done"
    /\ counters["missing"] = 1 /\ counters["failed"] = 1 /\ counters["ok_unknown"] = 1

----------------------------------------------------------------------------
\* C11: the classification of a bulk response item, written from the item alone
C11_Label(item) ==
    LET is2xx == item.has_status /\ item.status \in 200..299
        is404 == item.has_status /\ item.status = 404
    IN  IF is2xx
        THEN IF item.result \in {"updated", "created", "noop"} THEN item.result ELSE "ok_unknown"
        ELSE IF is404 THEN "missing" ELSE "failed"

\* C11: every item stream_to_es consumes increments the counter of its class: a 2xx
\* item with result updated, created or noop that result, any other 2xx item
\* ok_unknown, a 404 item missing without a log line, and every other item (one
\* without a status field included) failed with one log line.
C11_BulkClassification ==
    [][pc = "bulk_loop" /\ pc' = "bulk_loop" /\ responses' # responses =>
          LET label == C11_Label(Head(responses))
          IN  /\ counters' = [counters EXCEPT ![label] = @ + 1]
              /\ warnings' = warnings + (IF label = "failed" THEN 1 ELSE 0)]_vars

\* a response with a 2xx item of unknown result, a 404 item and an item without status
\* has been consumed: one log line, for the last
C11_Witness ==
    /\ pc = "bulk_done"
    /\ counters["ok_unknown"] = 1 /\ counters["missing"] = 1 /\ counters["failed"] = 1
    /\ warnings = 1

----------------------------------------------------------------------------
\* C13: for every validated message, expand_action returns the operation update on the
\* message's own _index and _id (same type, same text) with _type page, and a script
\* body super_detect_noop of language native whose params.source is the message's
\* _source and whose params.handlers has the keys of _source, each with its policy
\* of FIELD_CONFIG.
C13_ExpandAction ==
    \A k \in 1..Len(sent) :
        LET m == sent[k].message
            action == sent[k].out[1]
            source == sent[k].out[2]
            keys == {f \in FieldNames : m.source.f[f] # Absent}
        IN  Errors(m) = {} =>
              /\ DOMAIN action = {"update"}
              /\ action.update._index = m.index
              /\ action.update._id = m.id
              /\ action.update._type = "page"
              /\ DOMAIN source = {"script"}
              /\ source.script.inline = "super_detect_noop"
              /\ source.script.lang = "native"
              /\ source.script.params.source = m.source
              /\ DOMAIN source.script.params.handlers = keys
              /\ \A f \in keys : source.script.params.handlers[f] = FIELD_CONFIG[f]

\* messages with an integer _id and with a string _id have been expanded
C13_Witness ==
    /\ \E k \in 1..Len(sent) : sent[k].message.id.t = "integer"
    /\ \E k \in 1..Len(sent) :
          sent[k].message.id.t = "string" /\ sent[k].message.source.f["popularity_score"].t = "string"

----------------------------------------------------------------------------
PairwiseDistinct(u) == \A i, j \in 1..Len(u) : i # j => u[i] # u[j]

\* C12: make_es_clusters returns only when the uuids the configured hosts report are
\* pairwise distinct; when two hosts report the same uuid it raises, and run() is left
\* before the consumer exists: nothing is polled, submitted or committed, ever.
C12_DistinctClusters ==
    /\ [][pc = "startup" =>
             /\ pc' = "gate" => PairwiseDistinct(uuids)
             /\ ~PairwiseDistinct(uuids) => pc' = "aborted" /\ raised' # <<>>]_vars
    /\ [](pc = "aborted" =>
             /\ polls = 0 /\ position = [p \in Partitions |-> 0]
             /\ calls = <<>> /\ commits = <<>> /\ offsets = <<>> /\ ~closed)

\* two hosts reported the same uuid and run() has raised
C12_Witness ==
    /\ pc = "aborted" /\ raised = <<"startup">>
    /\ \E i, j \in Clusters : i # j /\ uuids[i] = uuids[j]

----------------------------------------------------------------------------
\* the clusters the loop over zip(es_clusters, split) has passed for the current batch
PassedClusters == IF pc = "submit" THEN 1..(ci - 1) ELSE Clusters

\* the stream_to_es calls of the current batch for cluster c
CallsFor(c) == {k \in 1..Len(calls) : calls[k].poll = polls /\ calls[k].cluster = c}

\* C14: for every non-empty poll, stream_to_es is called once for each cluster whose
\* sub-batch is not empty, with that sub-batch, and never for an empty one; the calls
\* of one poll are in the order of the configured clusters, and each has returned
\* before the next starts.
C14_SerializedFanOut ==
    /\ \A k \in 1..Len(calls) : calls[k].records # <<>>
    /\ \A k, l \in 1..Len(calls) :
          k < l /\ calls[k].poll = calls[l].poll =>
              calls[k].cluster < calls[l].cluster /\ calls[k].outcome = "returned"
    /\ (pc = "submit" \/ (pc = "gate" /\ batch # <<>>)) =>
          \A c \in PassedClusters :
              IF split[c] # <<>>
              THEN \E k \in CallsFor(c) : CallsFor(c) = {k} /\ calls[k].records = split[c]
              ELSE CallsFor(c) = {}

\* a batch went to two clusters, the first before the second, and an earlier batch
\* to one cluster only
C14_Witness ==
    /\ pc = "gate" /\ Len(calls) = 3
    /\ calls[1].poll = 1 /\ calls[2].poll = 2 /\ calls[3].poll = 2
    /\ calls[2].cluster = 1 /\ calls[3].cluster = 2

----------------------------------------------------------------------------
\* the partitions of the poll response
BatchPartitions == {batch[i].tp : i \in 1..Len(batch)}

\* C15: when the sub-batches of a non-empty poll have all been submitted, every
\* partition of the poll, one whose records were all dropped included, gets as staged
\* offset the offset of its last polled record plus one, whatever was staged for it
\* before; the partitions not in the poll keep what was staged for them.
C15_OffsetStaging ==
    [][pc = "submit" /\ pc' = "gate" =>
          /\ DOMAIN offsets' = DOMAIN offsets \cup BatchPartitions
          /\ \A i \in 1..Len(batch) :
                offsets'[batch[i].tp] = batch[i].records[Len(batch[i].records)].offset + 1
          /\ \A tp \in DOMAIN offsets \ BatchPartitions : offsets'[tp] = offsets[tp]]_vars

\* the second batch held one partition whose records were all dropped: its offset is
\* staged next to the one the first batch staged for the other partition
C15_Witness ==
    /\ pc = "gate" /\ polls = 2 /\ commits = <<>>
    /\ Len(batch) = 1 /\ \A c \in Clusters : split[c] = <<>>
    /\ DOMAIN offsets = Partitions
    /\ offsets[batch[1].tp] = position[batch[1].tp]

----------------------------------------------------------------------------
\* a batch is between its poll and the end of its `with` block
InFlight == pc \in {"route", "submit"}

\* the read of the route table raised for a batch
RouteFailed == \E k \in 1..Len(raised) : raised[k] = "route"

\* C16 as claimed: whenever no batch is in flight, the summary has as many
\* observations as there were polls that returned records.
C16_Orig == ~InFlight => observations = nonempty

\* C16: the summary gets one observation for every non-empty poll whose batch entered
\* the `with` block, whatever the number of clusters submitted to and also when a
\* submission raised, and none for an empty poll or for a batch whose route table
\* read raised.
C16_BatchTimer ==
    observations = nonempty - (IF InFlight THEN 1 ELSE 0) - (IF RouteFailed THEN 1 ELSE 0)

\* one batch has been submitted to two clusters: one observation
C16_Witness ==
    /\ pc = "gate" /\ nonempty = 1 /\ polls = 2 /\ observations = 1
    /\ Len(calls) = 2 /\ calls[1].cluster # calls[2].cluster

----------------------------------------------------------------------------
\* the validated records whose _index no cluster holds, and the others
Unroutable == {f \in Validated : Matching(f) = {}}
Routed == Validated \ Unroutable

\* C17: a validated record whose _index is in no set of the route table is in no
\* sub-batch and adds one to missing_index and nothing to fail_validate; a routed
\* record adds to neither: missing_index counts the unroutable records and
\* fail_validate the invalid ones, nothing else.
C17_UnroutableIndex ==
    pc = "split_done" =>
        /\ \A f \in Unroutable : InNoSubBatch(f)
        /\ counters["missing_index"] = Cardinality(Unroutable)
        /\ counters["fail_validate"] = Cardinality(Invalid)

\* a call that routed one record and found no cluster for another
C17_Witness ==
    /\ pc = "split_done"
    /\ Cardinality(Unroutable) = 1 /\ Cardinality(Routed) = 1
    /\ counters["missing_index"] = 1 /\ counters["fail_validate"] = 0

----------------------------------------------------------------------------
RECURSIVE OccurrencesIn(_, _)
\* how often record f stands in the first n sub-batches
OccurrencesIn(n, f) == IF n = 0 THEN 0 ELSE Occurrences(n, f) + OccurrencesIn(n - 1, f)

\* C19: the splitter returns one sub-batch per cluster of the route table, and every
\* polled record has exactly one outcome: it stands once in one sub-batch, or it was
\* counted as fail_validate, or as missing_index, or it did not decode and was
\* dropped; the sizes of the sub-batches, the two counters and the number of
\* undecodable records add up to the number of polled records.
C19_Conservation ==
    pc = "split_done" =>
        /\ Len(split) = Len(indices)
        /\ \A f \in FlatSet(batch) :
              OccurrencesIn(Len(split), f) = IF f \in Routed THEN 1 ELSE 0
        /\ counters["fail_validate"] + Cardinality(Routed) + Cardinality(Undecodable)
              = Cardinality(FlatSet(batch)) - counters["missing_index"]
        /\ SizeSum(split) + counters["fail_validate"] + counters["missing_index"]
              + Cardinality(Undecodable) = Cardinality(FlatSet(batch))

\* a call on a placed record and an undecodable one, from two partitions
C19_Witness ==
    /\ pc = "split_done" /\ Len(batch) = 2
    /\ Cardinality(Routed) = 1 /\ Cardinality(Undecodable) = 1
    /\ SizeSum(split) = 1

----------------------------------------------------------------------------
\* C18: a poll that returns no records sends run() back to the top of the loop and
\* changes neither the staged offsets, the last commit time, any counter, the
\* summary nor the route table cache, and nothing is submitted or committed.
C18_EmptyPollNoOp ==
    [][pc = "poll" /\ polls' = polls + 1 /\ batch' = <<>> =>
          /\ pc' = "gate"
          /\ UNCHANGED <<offsets, last_commit, counters, observations, cache, nbuilds>>
          /\ UNCHANGED <<calls, sent, commits, warnings>>]_vars

\* an empty poll came after a batch that was counted, timed and staged
C18_Witness ==
    /\ pc = "gate" /\ polls = 2 /\ batch = <<>>
    /\ DOMAIN offsets # {} /\ observations = 1 /\ cache # <<>>
    /\ counters["records_total"] > 0 /\ mono >= PollTimeout

----------------------------------------------------------------------------
\* offset o of partition tp has been passed to a commit call
Committed(tp, o) ==
    \E k \in 1..Len(commits) : tp \in DOMAIN commits[k].offsets /\ commits[k].offsets[tp] = o

\* a step that takes a staged offset away passes it to a commit call or replaces it
\* by a larger one
C20_NeverDiscarded ==
    [][\A tp \in DOMAIN offsets :
          (tp \notin DOMAIN offsets' \/ offsets'[tp] # offsets[tp]) =>
              \/ /\ Len(commits') = Len(commits) + 1
                 /\ commits'[Len(commits')].offsets = offsets
              \/ tp \in DOMAIN offsets' /\ offsets'[tp] > offsets[tp]]_vars

----------------------------------------------------------------------------
\* the producer was called by read j and raised
Raised(j) == reads[j].built /\ ~Returned(j)

\* C21: under a clock that does not step back, every route table a read returns was
\* built by a producer call of that read or of an earlier read made less than 300 s
\* before it; and a read whose producer call raises returns nothing and leaves the
\* cached entry as it was.
C21_Freshness ==
    /\ [](NonDecreasing =>
             \A j \in 1..Len(reads) :
                 Returned(j) =>
                     \E b \in 1..j :
                         /\ reads[b].built /\ reads[b].id = reads[j].id
                         /\ reads[j].t - reads[b].t < TTL)
    /\ [][(Len(reads') = Len(reads) + 1 /\ reads'[Len(reads')].id = 0) =>
             cache' = cache]_vars

\* a table built at some time was returned again 299 s later, and the refresh a
\* second after that raised: the entry built first is still the cached one
C21_Witness ==
    /\ Len(reads) = 3 /\ NonDecreasing
    /\ reads[1].built /\ Returned(1)
    /\ reads[2].t = reads[1].t + 299 /\ ~reads[2].built /\ reads[2].id = reads[1].id
    /\ reads[3].t = reads[1].t + TTL /\ Raised(3)
    /\ cache # <<>> /\ cache[1].value.id = reads[1].id
====
